---- MODULE Spec2Model ----
(***************************************************************************)
(* Model of the lead generation pipeline: leadgen.py and lead_filter.py.   *)
(*                                                                         *)
(* Python values are encoded as follows.                                   *)
(*   - a value read from JSON (rating, user_ratings_total) or a page       *)
(*     length is a tuple: <<"None">>, <<"num", n>> (a number),            *)
(*     <<"text", n>> (a string that spells the number n) or <<"junk">>    *)
(*     (a string that spells no number).  Ratings are in tenths, so that   *)
(*     4.5 is 45.                                                          *)
(*   - a string the code inspects character by character (a URL, a page)   *)
(*     is a sequence of one-character strings.                             *)
(***************************************************************************)
EXTENDS Integers, Sequences, FiniteSets, TLC

VARIABLES
    \* ---- score_lead called on its own
    sl_pc,          \* "call" before the call, "returned" after it
    sl_args,        \* the eight arguments of the call
    sl_score,       \* the value returned by the last call
    sl_prev,        \* arguments and result of the call before the last one
    \* ---- lead_filter: the identifier set and the threads calling is_new_place
    existing_ids,   \* the set of place_ids that is_new_place checks and fills
    ids0,           \* existing_ids as it was when the calls started
    lock,           \* _lock: 0 when free, else the thread holding it
    t_pc,           \* per thread: "call", "check", "add", "release", "done"
    t_pid,          \* per thread: the place_id argument
    t_ret,          \* per thread: the value returned
    \* ---- get_places
    gp_pc,          \* "request" while the keyword loop runs, "done" once it returned
    gp_kw,          \* index in KEYWORDS of the keyword being queried
    gp_params,      \* params of the next request
    gp_page,        \* re-queries made so far in this keyword's chain
    places,         \* the dict places, in insertion order
    clock,          \* seconds spent in time.sleep so far
    gp_log,         \* every request made, with the response it got
    gp_seen,        \* every result the responses carried, in query order
    gp_menu,        \* the result lists the search API answers with
    \* ---- process_businesses
    pb_pc,          \* "details", "dedup", "pool", "done"
    businesses,     \* the argument businesses
    pb_i,           \* index of the business whose details are fetched next
    enriched,       \* the list enriched
    businesses_unique,
    futures,        \* per submitted task: its state and what it returned
    analyses,       \* the dict analyses: place_id -> analysis
    rows,           \* the rows returned
    \* ---- main and the store
    m_pc,           \* "start", "search", "process", "exit", "crashed"
    run,            \* the number of this run of the program
    api_key,        \* GOOGLE_API_KEY ("" when the variable is not set)
    store,          \* the file CSV_OUTPUT: whether it exists, and its rows
    saved,          \* the store and the rows that the last save_results was given
    produced        \* <<run, place_id>> for every row a run has built

scoreVars == <<sl_pc, sl_args, sl_score, sl_prev>>
threadVars == <<lock, t_pc, t_pid, t_ret>>
filterVars == <<existing_ids, ids0, lock, t_pc, t_pid, t_ret>>
pbVars == <<pb_pc, businesses, pb_i, enriched, businesses_unique, futures, analyses, rows>>
mainVars == <<m_pc, run, api_key, store, saved, produced>>
placesVars == <<gp_pc, gp_kw, gp_params, gp_page, places, clock, gp_log, gp_seen, gp_menu>>

vars == <<sl_pc, sl_args, sl_score, sl_prev,
          existing_ids, ids0, lock, t_pc, t_pid, t_ret,
          gp_pc, gp_kw, gp_params, gp_page, places, clock, gp_log, gp_seen, gp_menu,
          pb_pc, businesses, pb_i, enriched, businesses_unique, futures, analyses, rows,
          m_pc, run, api_key, store, saved, produced>>

(***************************************************************************)
(* Python values                                                           *)
(***************************************************************************)
NoneV == <<"None">>
Num(n) == <<"num", n>>
Text(n) == <<"text", n>>
Junk == <<"junk">>

IsNone(v) == v[1] = "None"
IsNum(v) == v[1] = "num"

\* float(v) and int(v) raise on None and on a string that spells no number.
ConvRaises(v) == v[1] \in {"None", "junk"}
ConvValue(v) == v[2]

\* v < n raises TypeError unless v is a number (a str or None against an int).
LessRaises(v) == v[1] # "num"

(***************************************************************************)
(* score_lead                                                              *)
(***************************************************************************)
LEN_THRESHOLD == 5000
RATING_THRESHOLD == 45
REVIEWS_THRESHOLD == 15

score_lead_noshortcut(has_website, https, has_viewport, html_length, emails, has_cta, rating, user_ratings_total) ==
    (IF ~has_website THEN 10 ELSE 0)
    + (IF ~https THEN 5 ELSE 0)
    + (IF ~has_viewport THEN 3 ELSE 0)
    + (IF LessRaises(html_length) THEN 3
       ELSE IF ConvValue(html_length) < LEN_THRESHOLD THEN 3 ELSE 0)
    + (IF emails = <<>> THEN 2 ELSE 0)
    + (IF ~has_cta THEN 2 ELSE 0)
    + (IF IsNone(rating) THEN 1
       ELSE IF ConvRaises(rating) THEN 1
       ELSE IF ConvValue(rating) < RATING_THRESHOLD THEN 1 ELSE 0)
    + (IF IsNone(user_ratings_total) THEN 1
       ELSE IF ConvRaises(user_ratings_total) THEN 1
       ELSE IF ConvValue(user_ratings_total) < REVIEWS_THRESHOLD THEN 1 ELSE 0)

score_lead_ratingflipped(has_website, https, has_viewport, html_length, emails, has_cta, rating, user_ratings_total) ==
    IF ~has_website THEN 10
    ELSE
      (IF ~https THEN 5 ELSE 0)
      + (IF ~has_viewport THEN 3 ELSE 0)
      + (IF LessRaises(html_length) THEN 3
         ELSE IF ConvValue(html_length) < LEN_THRESHOLD THEN 3 ELSE 0)
      + (IF emails = <<>> THEN 2 ELSE 0)
      + (IF ~has_cta THEN 2 ELSE 0)
      + (IF IsNone(rating) THEN 1
         ELSE IF ConvRaises(rating) THEN 1
         ELSE IF ConvValue(rating) > RATING_THRESHOLD THEN 1 ELSE 0)
      + (IF IsNone(user_ratings_total) THEN 1
         ELSE IF ConvRaises(user_ratings_total) THEN 1
         ELSE IF ConvValue(user_ratings_total) < REVIEWS_THRESHOLD THEN 1 ELSE 0)

score_lead_dropmalformed(has_website, https, has_viewport, html_length, emails, has_cta, rating, user_ratings_total) ==
    IF ~has_website THEN 10
    ELSE
      (IF ~https THEN 5 ELSE 0)
      + (IF ~has_viewport THEN 3 ELSE 0)
      + (IF LessRaises(html_length) THEN 0
         ELSE IF ConvValue(html_length) < LEN_THRESHOLD THEN 3 ELSE 0)
      + (IF emails = <<>> THEN 2 ELSE 0)
      + (IF ~has_cta THEN 2 ELSE 0)
      + (IF IsNone(rating) THEN 1
         ELSE IF ConvRaises(rating) THEN 0
         ELSE IF ConvValue(rating) < RATING_THRESHOLD THEN 1 ELSE 0)
      + (IF IsNone(user_ratings_total) THEN 1
         ELSE IF ConvRaises(user_ratings_total) THEN 0
         ELSE IF ConvValue(user_ratings_total) < REVIEWS_THRESHOLD THEN 1 ELSE 0)

score_lead(has_website, https, has_viewport, html_length, emails, has_cta, rating, user_ratings_total) ==
    IF ~has_website THEN 10
    ELSE
      (IF ~https THEN 5 ELSE 0)
      + (IF ~has_viewport THEN 3 ELSE 0)
      + (IF LessRaises(html_length) THEN 3
         ELSE IF ConvValue(html_length) < LEN_THRESHOLD THEN 3 ELSE 0)
      + (IF emails = <<>> THEN 2 ELSE 0)
      + (IF ~has_cta THEN 2 ELSE 0)
      + (IF IsNone(rating) THEN 1
         ELSE IF ConvRaises(rating) THEN 1
         ELSE IF ConvValue(rating) < RATING_THRESHOLD THEN 1 ELSE 0)
      + (IF IsNone(user_ratings_total) THEN 1
         ELSE IF ConvRaises(user_ratings_total) THEN 1
         ELSE IF ConvValue(user_ratings_total) < REVIEWS_THRESHOLD THEN 1 ELSE 0)

ScoreOf(a) ==
    score_lead(a.has_website, a.https, a.has_viewport, a.html_length, a.emails,
               a.has_cta, a.rating, a.user_ratings_total)

(***************************************************************************)
(* score_lead called on its own: the arguments are drawn from the sets     *)
(* below, the call is made, and then it is made again with one signal      *)
(* turned from its good form into a bad one.                               *)
(***************************************************************************)
LengthValues == {NoneV, Junk, Text(6000), Num(0), Num(800), Num(4999), Num(5000), Num(6000)}
RatingValues == {NoneV, Junk, Text(47), Num(30), Num(44), Num(45), Num(50)}
ReviewValues == {NoneV, Junk, Text(20), Num(0), Num(5), Num(14), Num(15), Num(200)}
EmailValues == {<<>>, <<"contact@example.com">>}

ScoreArgs ==
    [has_website : BOOLEAN, https : BOOLEAN, has_viewport : BOOLEAN,
     html_length : LengthValues, emails : EmailValues, has_cta : BOOLEAN,
     rating : RatingValues, user_ratings_total : ReviewValues]

NoPrev == [valid |-> FALSE, score |-> 0]

\* The negative form of each signal, as the scoring policy words it.
ShortPage(v) == ~IsNum(v) \/ ConvValue(v) < 5000
LowRating(v) == ConvRaises(v) \/ ConvValue(v) < 45
LowReviews(v) == ConvRaises(v) \/ ConvValue(v) < 15

\* The argument records that differ from a in one signal, which is in its
\* good form in a and in a bad form in the result.
Worsened(a) ==
    {[a EXCEPT !.https = FALSE] :
            x \in (IF a.https THEN {1} ELSE {})}
    \cup {[a EXCEPT !.has_viewport = FALSE] :
            x \in (IF a.has_viewport THEN {1} ELSE {})}
    \cup {[a EXCEPT !.html_length = v] :
            v \in (IF ShortPage(a.html_length) THEN {}
                   ELSE {w \in LengthValues : ShortPage(w)})}
    \cup {[a EXCEPT !.emails = <<>>] :
            x \in (IF a.emails # <<>> THEN {1} ELSE {})}
    \cup {[a EXCEPT !.has_cta = FALSE] :
            x \in (IF a.has_cta THEN {1} ELSE {})}
    \cup {[a EXCEPT !.rating = v] :
            v \in (IF LowRating(a.rating) THEN {}
                   ELSE {w \in RatingValues : LowRating(w)})}
    \cup {[a EXCEPT !.user_ratings_total = v] :
            v \in (IF LowReviews(a.user_ratings_total) THEN {}
                   ELSE {w \in ReviewValues : LowReviews(w)})}

ScoreInit ==
    /\ sl_pc = "call"
    /\ sl_args \in ScoreArgs
    /\ sl_score = 0
    /\ sl_prev = NoPrev

ScoreIdle ==
    /\ sl_pc = "idle"
    /\ sl_args = [has_website |-> FALSE, https |-> FALSE, has_viewport |-> FALSE,
                  html_length |-> Num(0), emails |-> <<>>, has_cta |-> FALSE,
                  rating |-> NoneV, user_ratings_total |-> NoneV]
    /\ sl_score = 0
    /\ sl_prev = NoPrev

\* score = score_lead(...)
ScoreLeadCall ==
    /\ sl_pc = "call"
    /\ sl_score' = ScoreOf(sl_args)
    /\ sl_pc' = "returned"
    /\ UNCHANGED <<sl_args, sl_prev>>

\* The same call again, one more negative signal among the arguments.
ScoreLeadAgain ==
    /\ sl_pc = "returned"
    /\ sl_args.has_website
    /\ \E b \in Worsened(sl_args) :
         /\ sl_prev' = [valid |-> TRUE, score |-> sl_score]
         /\ sl_args' = b
         /\ sl_score' = ScoreOf(b)
    /\ UNCHANGED sl_pc

(***************************************************************************)
(* lead_filter.is_new_place, called from several threads at once           *)
(***************************************************************************)
NThreads == 3
Threads == 1..NThreads
PlaceIds == {"p1", "p2", "p3"}

\* `with _lock:` blocks until the lock is free.
CanAcquire_unguarded(l) == TRUE

CanAcquire(l) == l = 0

FilterInit ==
    /\ existing_ids \in SUBSET {"p1", "p2"}
    /\ ids0 = existing_ids
    /\ lock = 0
    /\ t_pc = [t \in Threads |-> "call"]
    /\ t_pid \in [Threads -> {"p1", "p2"}]
    /\ t_ret = [t \in Threads |-> FALSE]

FilterIdle ==
    /\ existing_ids = {}
    /\ ids0 = {}
    /\ lock = 0
    /\ t_pc = [t \in Threads |-> "idle"]
    /\ t_pid = [t \in Threads |-> ""]
    /\ t_ret = [t \in Threads |-> FALSE]

\* with _lock:
Acquire(t) ==
    /\ t_pc[t] = "call"
    /\ CanAcquire(lock)
    /\ lock' = t
    /\ t_pc' = [t_pc EXCEPT ![t] = "check"]
    /\ UNCHANGED <<existing_ids, ids0, t_pid, t_ret>>

\* if place_id in existing_ids: return False
Check(t) ==
    /\ t_pc[t] = "check"
    /\ IF t_pid[t] \in existing_ids
       THEN /\ t_ret' = [t_ret EXCEPT ![t] = FALSE]
            /\ t_pc' = [t_pc EXCEPT ![t] = "release"]
       ELSE /\ t_pc' = [t_pc EXCEPT ![t] = "add"]
            /\ UNCHANGED t_ret
    /\ UNCHANGED <<existing_ids, ids0, lock, t_pid>>

\* existing_ids.add(place_id); return True
Add(t) ==
    /\ t_pc[t] = "add"
    /\ existing_ids' = existing_ids \cup {t_pid[t]}
    /\ t_ret' = [t_ret EXCEPT ![t] = TRUE]
    /\ t_pc' = [t_pc EXCEPT ![t] = "release"]
    /\ UNCHANGED <<ids0, lock, t_pid>>

\* leaving the with block releases the lock; the call returns
Release(t) ==
    /\ t_pc[t] = "release"
    /\ lock' = 0
    /\ t_pc' = [t_pc EXCEPT ![t] = "done"]
    /\ UNCHANGED <<existing_ids, ids0, t_pid, t_ret>>

(***************************************************************************)
(* get_places                                                              *)
(***************************************************************************)
KEYWORDS == <<"landscaping", "house cleaning">>
PLACEHOLDER_KEY == "YOUR_GOOGLE_API_KEY"
VALID_KEY == "key"
PLACES_SLEEP == 2
MaxRequeries == 2

\* A missing key of a result and an empty string are both "" here: the code
\* only tests them for truth.
Raw(pid, name, rating, total, vicinity, formatted) ==
    [place_id |-> pid, name |-> name, rating |-> rating, user_ratings_total |-> total,
     vicinity |-> vicinity, formatted_address |-> formatted]

R1 == Raw("p1", "A", Num(30), Num(5), "1 Elm St", "")
R1b == Raw("p1", "A2", Num(48), Num(40), "", "1 Elm Street, PA")
R2 == Raw("p2", "B", NoneV, NoneV, "", "")
R3 == Raw("p3", "C", Num(45), Text(20), "3 Oak St", "3 Oak Street, PA")
R0 == Raw("", "X", Num(50), Num(99), "9 Nowhere", "")

AllResultLists == {<<>>, <<R1, R2>>, <<R0, R1b, R3>>, <<R2, R1b, R1>>}

NoToken == NoneV
Token(n) == <<"token", n>>

\* a or b
PyOr(a, b) == IF a # "" THEN a ELSE b

FirstParams(kw) == [keyword |-> kw, pagetoken |-> NoToken]

RequeryParams_keep(params, next_token) == params

\* params = {"pagetoken": next_token, "key": api_key}
RequeryParams(params, next_token) == [keyword |-> "", pagetoken |-> next_token]

PlaceEntry(p) ==
    [business_name |-> p.name, place_id |-> p.place_id, rating |-> p.rating,
     user_ratings_total |-> p.user_ratings_total,
     address |-> PyOr(p.vicinity, p.formatted_address)]

HasPlace(ps, pid) == \E i \in 1..Len(ps) : ps[i].place_id = pid

MergeOne_overwrite(ps, p) ==
    IF p.place_id = "" THEN ps
    ELSE IF HasPlace(ps, p.place_id)
    THEN [i \in 1..Len(ps) |-> IF ps[i].place_id = p.place_id THEN PlaceEntry(p) ELSE ps[i]]
    ELSE Append(ps, PlaceEntry(p))

\* one turn of `for p in results`
MergeOne(ps, p) ==
    IF p.place_id = "" THEN ps
    ELSE IF HasPlace(ps, p.place_id) THEN ps
    ELSE Append(ps, PlaceEntry(p))

RECURSIVE MergeResults(_, _)
MergeResults(ps, results) ==
    IF results = <<>> THEN ps
    ELSE MergeResults(MergeOne(ps, Head(results)), Tail(results))

\* Where the loop over the keywords goes once the chain of keyword kw is over.
AfterChain(kw) ==
    IF kw < Len(KEYWORDS)
    THEN [pc |-> "request", kw |-> kw + 1, params |-> FirstParams(KEYWORDS[kw + 1])]
    ELSE [pc |-> "done", kw |-> kw, params |-> FirstParams("")]

AfterFailure_abort(kw) == [pc |-> "done", kw |-> kw, params |-> FirstParams("")]

\* except Exception: ... break
AfterFailure(kw) == AfterChain(kw)

AfterSleep_none(t) == t

\* time.sleep(PLACES_SLEEP)
AfterSleep(t) == t + PLACES_SLEEP

Failure == [ok |-> FALSE, results |-> <<>>, next_page_token |-> NoToken]

\* What the search API may answer to the next request.  The token of a
\* response is fresh; a chain has at most MaxRequeries continuations.  A
\* request without a valid key is denied: the answer carries no results.
Denied == [ok |-> TRUE, results |-> <<>>, next_page_token |-> NoToken]
Responses ==
    IF api_key # VALID_KEY THEN {Failure, Denied}
    ELSE {Failure}
         \cup [ok : {TRUE}, results : gp_menu,
               next_page_token : {NoToken} \cup
                  (IF gp_page < MaxRequeries THEN {Token(Len(gp_log) + 1)} ELSE {})]

PlacesInit ==
    /\ gp_pc = "request"
    /\ gp_kw = 1
    /\ gp_params = FirstParams(KEYWORDS[1])
    /\ gp_page = 0
    /\ places = <<>>
    /\ clock = 0
    /\ gp_log = <<>>
    /\ gp_seen = <<>>

PlacesIdle ==
    /\ gp_pc = "idle"
    /\ gp_kw = 1
    /\ gp_params = FirstParams("")
    /\ gp_page = 0
    /\ places = <<>>
    /\ clock = 0
    /\ gp_log = <<>>
    /\ gp_seen = <<>>
    /\ gp_menu = {}

\* One turn of `while True`: the request, the merge of its results, and
\* either the sleep before the re-query or the end of the chain.
GP_Request ==
    /\ gp_pc = "request"
    /\ \E resp \in Responses :
         /\ gp_log' = Append(gp_log,
                [kw |-> gp_kw, keyword |-> gp_params.keyword,
                 pagetoken |-> gp_params.pagetoken, at |-> clock,
                 ok |-> resp.ok, next_page_token |-> resp.next_page_token])
         /\ IF ~resp.ok
            THEN /\ gp_pc' = AfterFailure(gp_kw).pc
                 /\ gp_kw' = AfterFailure(gp_kw).kw
                 /\ gp_params' = AfterFailure(gp_kw).params
                 /\ gp_page' = 0
                 /\ UNCHANGED <<places, clock, gp_seen>>
            ELSE /\ places' = MergeResults(places, resp.results)
                 /\ gp_seen' = gp_seen \o resp.results
                 /\ IF resp.next_page_token # NoToken
                    THEN /\ clock' = AfterSleep(clock)
                         /\ gp_params' = RequeryParams(gp_params, resp.next_page_token)
                         /\ gp_page' = gp_page + 1
                         /\ UNCHANGED <<gp_pc, gp_kw>>
                    ELSE /\ gp_pc' = AfterChain(gp_kw).pc
                         /\ gp_kw' = AfterChain(gp_kw).kw
                         /\ gp_params' = AfterChain(gp_kw).params
                         /\ gp_page' = 0
                         /\ UNCHANGED clock
    /\ UNCHANGED gp_menu

(***************************************************************************)
(* Strings.  A string the code looks into is a sequence of one-character   *)
(* strings; Spelling gives the characters of the URLs of the model.        *)
(***************************************************************************)
UpperCase == <<"A", "B", "C", "D", "E", "F", "G", "H", "I", "J", "K", "L", "M", "N", "O", "P", "Q", "R", "S", "T", "U", "V", "W", "X", "Y", "Z">>
LowerCase == <<"a", "b", "c", "d", "e", "f", "g", "h", "i", "j", "k", "l", "m", "n", "o", "p", "q", "r", "s", "t", "u", "v", "w", "x", "y", "z">>
DigitChars == <<"0", "1", "2", "3", "4", "5", "6", "7", "8", "9">>
\* The characters of the model in code point order.
Ascii == <<" ", "%", "+", "-", ".", "/", "0", "1", "2", "3", "4", "5", "6", "7", "8", "9", ":", ";", "<", ">", "@", "A", "B", "C", "D", "E", "F", "G", "H", "I", "J", "K", "L", "M", "N", "O", "P", "Q", "R", "S", "T", "U", "V", "W", "X", "Y", "Z", "_", "a", "b", "c", "d", "e", "f", "g", "h", "i", "j", "k", "l", "m", "n", "o", "p", "q", "r", "s", "t", "u", "v", "w", "x", "y", "z">>

Range(f) == {f[i] : i \in DOMAIN f}
Letters == Range(UpperCase) \cup Range(LowerCase)
Alnum == Letters \cup Range(DigitChars)

\* str.lower()
LowerChar(c) ==
    IF c \in Range(UpperCase)
    THEN LowerCase[CHOOSE i \in DOMAIN UpperCase : UpperCase[i] = c]
    ELSE c
Lower(s) == [i \in 1..Len(s) |-> LowerChar(s[i])]

\* str.startswith, str.endswith, `t in s`
StartsWith(s, t) == Len(s) >= Len(t) /\ SubSeq(s, 1, Len(t)) = t
EndsWith(s, t) == Len(s) >= Len(t) /\ SubSeq(s, Len(s) - Len(t) + 1, Len(s)) = t
Contains(s, t) == \E i \in 0..(Len(s) - Len(t)) : SubSeq(s, i + 1, i + Len(t)) = t

CharCode(c) == CHOOSE i \in DOMAIN Ascii : Ascii[i] = c

\* s < t for two strings
RECURSIVE StrLess(_, _)
StrLess(s, t) ==
    IF t = <<>> THEN FALSE
    ELSE IF s = <<>> THEN TRUE
    ELSE IF Head(s) = Head(t) THEN StrLess(Tail(s), Tail(t))
    ELSE CharCode(Head(s)) < CharCode(Head(t))

\* sorted(set)
RECURSIVE Sorted(_)
Sorted(set) ==
    IF set = {} THEN <<>>
    ELSE LET m == CHOOSE x \in set : \A y \in set \ {x} : StrLess(x, y)
         IN <<m>> \o Sorted(set \ {m})

\* ";".join(list)
RECURSIVE Join(_)
Join(list) ==
    IF list = <<>> THEN <<>>
    ELSE IF Len(list) = 1 THEN list[1]
    ELSE list[1] \o <<";">> \o Join(Tail(list))

RECURSIVE Concat(_)
Concat(list) == IF list = <<>> THEN <<>> ELSE Head(list) \o <<"<">> \o Concat(Tail(list))

(***************************************************************************)
(* analyze_website                                                         *)
(***************************************************************************)
Spelling ==
    [u \in {"example.com", "https://acme.com", "//host.com", "HTTP://b.com"} |->
        CASE u = "example.com" -> <<"e", "x", "a", "m", "p", "l", "e", ".", "c", "o", "m">>
          [] u = "https://acme.com" -> <<"h", "t", "t", "p", "s", ":", "/", "/", "a", "c", "m", "e", ".", "c", "o", "m">>
          [] u = "//host.com" -> <<"/", "/", "h", "o", "s", "t", ".", "c", "o", "m">>
          [] u = "HTTP://b.com" -> <<"H", "T", "T", "P", ":", "/", "/", "b", ".", "c", "o", "m">>]

\* urlparse(url).scheme is not empty: the text before the first ":" starts
\* with a letter and is made of letters, digits, "+", "-" and "."
HasScheme(url) ==
    \E i \in 2..Len(url) :
        /\ url[i] = ":"
        /\ \A k \in 1..(i - 1) : url[k] # ":" /\ url[k] \in Alnum \cup {"+", "-", "."}
        /\ url[1] \in Letters

NormalizeUrl_bare(url) ==
    IF ~HasScheme(url) THEN <<"h", "t", "t", "p", ":", "/", "/">> \o url ELSE url

\* lines 141-144
NormalizeUrl(url) ==
    LET u1 == IF StartsWith(url, <<"/", "/">>) THEN <<"h", "t", "t", "p", "s", ":">> \o url ELSE url
    IN IF ~HasScheme(u1) THEN <<"h", "t", "t", "p", ":", "/", "/">> \o u1 ELSE u1

IsHttps(url) == StartsWith(Lower(url), <<"h", "t", "t", "p", "s", ":", "/", "/">>)

\* A fetched page: the text of its <title> (<<>> when it has none), the name
\* attributes of its <meta> tags, its other text nodes, the values of its
\* other attributes, the phone numbers of its text in normal form, len(html).
Page(title, metas, texts, attrs, phones, length) ==
    [title |-> title, metas |-> metas, texts |-> texts, attrs |-> attrs,
     phones |-> phones, length |-> length]

PageEmailInText ==
    Page(<<>>, <<>>, <<<<"W", "r", "i", "t", "e", " ", "t", "o", " ", "c", "o", "n", "t", "a", "c", "t", "@", "e", "x", "a", "m", "p", "l", "e", ".", "c", "o", "m">>>>, <<>>, <<>>, 800)
PageEmailInLink ==
    Page(<<>>, <<>>, <<<<"W", "r", "i", "t", "e", " ", "t", "o", " ", "u", "s">>>>,
         <<<<"m", "a", "i", "l", "t", "o", ":", "c", "o", "n", "t", "a", "c", "t", "@", "e", "x", "a", "m", "p", "l", "e", ".", "c", "o", "m">>>>, <<>>, 800)
PageGood ==
    Page(<<"A", "c", "m", "e">>, <<<<"V", "i", "e", "w", "p", "o", "r", "t">>>>,
         <<<<"A", "s", "k", " ", "f", "o", "r", " ", "a", " ", "Q", "u", "o", "t", "e">>>>,
         <<<<"l", "o", "g", "o", "@", "2", "x", ".", "p", "n", "g">>, <<"I", "n", "f", "o", "@", "A", "c", "m", "e", ".", "c", "o", "m">>>>,
         <<<<"(", "+", "1", ")", " ", "5", "5", "5", "-", "1", "2", "3", "-", "4", "5", "6", "7">>>>, 6000)

\* The pages a site may answer with.
PagesOf(url) ==
    CASE url = "example.com" -> {PageEmailInText, PageEmailInLink}
      [] url = "https://acme.com" -> {PageGood}
      [] OTHER -> {PageGood}

\* The characters of html as far as the e-mail pattern goes: the strings of
\* the page, with markup ("<") between them.
Html(page) == Concat(<<page.title>> \o page.metas \o page.attrs \o page.texts)

\* soup.get_text(separator=" ")
RECURSIVE JoinSpace(_)
JoinSpace(list) ==
    IF list = <<>> THEN <<>>
    ELSE IF Len(list) = 1 THEN list[1]
    ELSE list[1] \o <<" ">> \o JoinSpace(Tail(list))
GetText(page) ==
    JoinSpace((IF page.title = <<>> THEN <<>> ELSE <<page.title>>) \o page.texts)

\* The last index of the run of characters of set cs that starts at i
\* (i - 1 when h[i] is not in cs).
RunEnd(h, i, cs) ==
    CHOOSE j \in (i - 1)..Len(h) :
        /\ \A k \in i..j : h[k] \in cs
        /\ j = Len(h) \/ h[j + 1] \notin cs

LocalChars == Alnum \cup {".", "_", "%", "+", "-"}
DomainChars == Alnum \cup {".", "-"}

\* Where the match of [A-Za-z0-9._%+-]+@[A-Za-z0-9.-]+\.[A-Za-z]{2,} that
\* starts at i ends; 0 when there is none.
EmailEnd(h, i) ==
    LET a == RunEnd(h, i, LocalChars)
    IN IF a < i \/ a + 1 > Len(h) THEN 0
       ELSE IF h[a + 1] # "@" THEN 0
       ELSE LET e == RunEnd(h, a + 2, DomainChars)
                ds == {d \in (a + 3)..e :
                          h[d] = "." /\ RunEnd(h, d + 1, Letters) >= d + 2}
            IN IF ds = {} THEN 0
               ELSE RunEnd(h, (CHOOSE d \in ds : \A x \in ds : x <= d) + 1, Letters)

\* re.findall(pattern, html)
RECURSIVE FindEmails(_, _)
FindEmails(h, i) ==
    IF i > Len(h) THEN {}
    ELSE LET e == EmailEnd(h, i)
         IN IF e = 0 THEN FindEmails(h, i + 1)
            ELSE {SubSeq(h, i, e)} \cup FindEmails(h, e + 1)

ImageEndings == {<<".", "p", "n", "g">>, <<".", "j", "p", "g">>, <<".", "j", "p", "e", "g">>, <<".", "g", "i", "f">>, <<".", "s", "v", "g">>}

\* lines 167-177: the matches in lower case, the image names left out, sorted
ExtractEmails(html) ==
    Sorted({Lower(e) : e \in {m \in FindEmails(html, 1) :
                                 \A ext \in ImageEndings : ~EndsWith(Lower(m), ext)}})

CtaKeywords == {<<"c", "a", "l", "l">>, <<"c", "o", "n", "t", "a", "c", "t">>, <<"q", "u", "o", "t", "e">>, <<"e", "s", "t", "i", "m", "a", "t", "e">>}

HasCta_words(text) ==
    \E kw \in CtaKeywords :
        \E i \in 0..(Len(text) - Len(kw)) :
            /\ SubSeq(text, i + 1, i + Len(kw)) = kw
            /\ i = 0 \/ text[i] = " "
            /\ i + Len(kw) = Len(text) \/ text[i + Len(kw) + 1] = " "

\* lines 193-195
HasCta(text) == \E kw \in CtaKeywords : Contains(text, kw)

DefaultAnalysis ==
    [emails |-> <<>>, phones_website |-> <<>>, https |-> FALSE, has_viewport |-> FALSE,
     html_length |-> Num(0), has_title |-> FALSE, has_cta |-> FALSE, error |-> ""]

\* What requests.get(url) does: it raises, or it returns a page.
FetchFailure == [ok |-> FALSE, page |-> Page(<<>>, <<>>, <<>>, <<>>, <<>>, 0)]
FetchOutcomes(url) == {FetchFailure} \cup {[ok |-> TRUE, page |-> pg] : pg \in PagesOf(url)}

\* analyze_website(url), given what the fetch of the page does
analyze_website(url, fetch) ==
    IF url = "" THEN DefaultAnalysis
    ELSE LET u == NormalizeUrl(Spelling[url])
             r1 == [DefaultAnalysis EXCEPT !.https = IsHttps(u)]
         IN IF ~fetch.ok THEN [r1 EXCEPT !.error = "fetch failed"]
            ELSE LET pg == fetch.page
                 IN [r1 EXCEPT
                       !.html_length = Num(pg.length),
                       !.has_title = pg.title # <<>>,
                       !.has_viewport =
                           \E i \in 1..Len(pg.metas) : Lower(pg.metas[i]) = <<"v", "i", "e", "w", "p", "o", "r", "t">>,
                       !.emails = ExtractEmails(Html(pg)),
                       !.phones_website = pg.phones,
                       !.has_cta = HasCta(Lower(GetText(pg)))]

(***************************************************************************)
(* get_place_details and process_businesses                                *)
(*                                                                         *)
(* In the string fields of a business (business_name, address,             *)
(* phone_google, website, place_id) "" stands for None as well: the code   *)
(* only tests these for truth.                                             *)
(***************************************************************************)
MAX_WORKERS == 12
MaxBiz == 2
\* One task more than the pool has workers.
MaxTasks == MAX_WORKERS + 1

R4 == Raw("p4", "B", Num(50), Num(15), "4 Pine St", "")
R5 == Raw("p5", "A", Num(40), Num(10), "5 Ash St", "")
R6 == Raw("p6", "D", Num(46), Num(30), "6 Fir St", "")
R7 == Raw("p7", "E", Num(20), Num(2), "7 Yew St", "")

\* What the details API knows of each place.
Details(website, phone, address) ==
    [website |-> website, phone_google |-> phone, address |-> address]
DetailsOf(place_id) ==
    CASE place_id = "p1" -> Details("example.com", "555-0101", "1 Elm Street, Philadelphia")
      [] place_id = "p3" -> Details("https://acme.com", "", "")
      [] place_id = "p6" -> Details("//host.com", "", "")
      [] place_id = "p7" -> Details("HTTP://b.com", "555-0107", "")
      [] OTHER -> Details("", "", "")

\* line 121
NoDetails == Details("", "", "")

\* get_place_details returns what the API knows, or NoDetails when the
\* request fails.
DetailOutcomes(place_id) == {NoDetails, DetailsOf(place_id)}

\* lines 242-250
Enrich(b, details) ==
    [business_name |-> b.business_name, place_id |-> b.place_id,
     address |-> PyOr(details.address, b.address),
     phone_google |-> details.phone_google, website |-> details.website,
     rating |-> b.rating, user_ratings_total |-> b.user_ratings_total]

DedupKey(e) == PyOr(e.website, e.business_name)

RECURSIVE Dedup_last(_, _, _)
Dedup_last(es, keys, acc) ==
    IF es = <<>> THEN acc
    ELSE IF \E i \in 2..Len(es) : DedupKey(es[i]) = DedupKey(Head(es))
    THEN Dedup_last(Tail(es), keys, acc)
    ELSE Dedup_last(Tail(es), keys, Append(acc, Head(es)))

\* lines 254-260
RECURSIVE Dedup(_, _, _)
Dedup(es, keys, acc) ==
    IF es = <<>> THEN acc
    ELSE IF DedupKey(Head(es)) \in keys THEN Dedup(Tail(es), keys, acc)
    ELSE Dedup(Tail(es), keys \cup {DedupKey(Head(es))}, Append(acc, Head(es)))

is_new_place_always(place_id, ids) == [ret |-> TRUE, ids |-> ids \cup {place_id}]

is_new_place_replace(place_id, ids) == [ret |-> place_id \notin ids, ids |-> {place_id}]

\* lead_filter.is_new_place called by one thread: the value returned and
\* the set afterwards
is_new_place(place_id, ids) ==
    [ret |-> place_id \notin ids, ids |-> ids \cup {place_id}]

\* The analysis of the task that as_completed yielded last.
AnalysisFor_last(an, place_id) ==
    an[futures[CHOOSE k \in 1..Len(futures) :
                   \A j \in 1..Len(futures) : futures[j].seq <= futures[k].seq].b.place_id]

\* analyses.get(place_id, {}) with the defaults of the a.get calls
AnalysisFor(an, place_id) ==
    IF place_id \in DOMAIN an THEN an[place_id] ELSE DefaultAnalysis

\* lines 291-307.  src_place_id is not a key of the row: it records for the
\* claims which place the row was built from.
MakeRow(b, a) ==
    [business_name |-> b.business_name,
     address |-> b.address,
     phone_google |-> b.phone_google,
     phone_website |-> IF a.phones_website # <<>> THEN Join(a.phones_website) ELSE NoneV,
     email |-> IF a.emails # <<>> THEN Join(a.emails) ELSE NoneV,
     website |-> b.website,
     rating |-> b.rating,
     user_ratings_total |-> b.user_ratings_total,
     https |-> a.https,
     has_viewport |-> a.has_viewport,
     html_length |-> a.html_length,
     lead_score |-> score_lead(b.website # "", a.https, a.has_viewport, a.html_length,
                               a.emails, a.has_cta, b.rating, b.user_ratings_total),
     src_place_id |-> b.place_id]

\* lines 284-310
RECURSIVE BuildRows(_, _, _, _)
BuildRows(bs, an, ids, acc) ==
    IF bs = <<>> THEN [rows |-> acc, ids |-> ids]
    ELSE LET b == Head(bs)
         IN IF b.place_id = "" THEN BuildRows(Tail(bs), an, ids, acc)
            ELSE LET c == is_new_place(b.place_id, ids)
                 IN IF ~c.ret THEN BuildRows(Tail(bs), an, c.ids, acc)
                    ELSE BuildRows(Tail(bs), an, c.ids,
                                   Append(acc, MakeRow(b, AnalysisFor(an, b.place_id))))

NoAnalyses == [x \in {} |-> DefaultAnalysis]

PBStart(bs) ==
    /\ pb_pc' = "details"
    /\ businesses' = bs
    /\ pb_i' = 1
    /\ enriched' = <<>>
    /\ businesses_unique' = <<>>
    /\ futures' = <<>>
    /\ analyses' = NoAnalyses
    /\ rows' = <<>>

PBIdle ==
    /\ pb_pc = "idle"
    /\ businesses = <<>>
    /\ pb_i = 1
    /\ enriched = <<>>
    /\ businesses_unique = <<>>
    /\ futures = <<>>
    /\ analyses = NoAnalyses
    /\ rows = <<>>

\* One turn of the loop of lines 237-251.
PB_FetchDetails ==
    /\ pb_pc = "details"
    /\ pb_i <= Len(businesses)
    /\ \E details \in DetailOutcomes(businesses[pb_i].place_id) :
         enriched' = Append(enriched, Enrich(businesses[pb_i], details))
    /\ clock' = AfterSleep(clock)
    /\ pb_i' = pb_i + 1
    /\ UNCHANGED <<pb_pc, businesses, businesses_unique, futures, analyses, rows>>

\* lines 253-266
PB_Dedup ==
    /\ pb_pc = "details"
    /\ pb_i > Len(businesses)
    /\ businesses_unique' = Dedup(enriched, {}, <<>>)
    /\ pb_pc' = "pool"
    /\ UNCHANGED <<businesses, pb_i, enriched, futures, analyses, rows, clock>>

\* One turn of the loop of lines 267-274: ex.submit
PB_Submit ==
    /\ pb_pc = "pool"
    /\ Len(futures) < Len(businesses_unique)
    /\ futures' = Append(futures,
          [b |-> businesses_unique[Len(futures) + 1], state |-> "queued",
           raised |-> FALSE, result |-> DefaultAnalysis, fetched |-> FALSE,
           fetch |-> FetchFailure, seq |-> 0, collected |-> FALSE])
    /\ UNCHANGED <<pb_pc, businesses, pb_i, enriched, businesses_unique, analyses, rows, clock>>

Running == {k \in 1..Len(futures) : futures[k].state = "running"}
Finished == {k \in 1..Len(futures) : futures[k].state = "finished"}
Collected == {k \in 1..Len(futures) : futures[k].collected}

WorkerFree_unbounded == TRUE

\* ThreadPoolExecutor(max_workers=MAX_WORKERS): a thread of the pool is idle,
\* or the pool may still create one.
WorkerFree == Cardinality(Running) < MAX_WORKERS

\* A worker thread of the pool takes the oldest queued task.
W_Start(k) ==
    /\ pb_pc = "pool"
    /\ k \in 1..Len(futures)
    /\ futures[k].state = "queued"
    /\ \A j \in 1..(k - 1) : futures[j].state # "queued"
    /\ WorkerFree
    /\ futures' = [futures EXCEPT ![k].state = "running"]
    /\ UNCHANGED <<pb_pc, businesses, pb_i, enriched, businesses_unique, analyses, rows, clock>>

\* The task returns: analyze_website(url) for a business with a website,
\* the default analysis otherwise.
W_Return(k) ==
    /\ pb_pc = "pool"
    /\ k \in 1..Len(futures)
    /\ futures[k].state = "running"
    /\ LET url == futures[k].b.website
       IN IF url # ""
          THEN \E fetch \in FetchOutcomes(url) :
                  futures' = [futures EXCEPT ![k].state = "finished",
                                             ![k].fetched = TRUE,
                                             ![k].fetch = fetch,
                                             ![k].result = analyze_website(url, fetch)]
          ELSE futures' = [futures EXCEPT ![k].state = "finished",
                                          ![k].result = DefaultAnalysis]
    /\ UNCHANGED <<pb_pc, businesses, pb_i, enriched, businesses_unique, analyses, rows, clock>>

\* The task ends with an exception that analyze_website does not catch.
W_Raise(k) ==
    /\ pb_pc = "pool"
    /\ k \in 1..Len(futures)
    /\ futures[k].state = "running"
    /\ futures[k].b.website # ""
    /\ futures' = [futures EXCEPT ![k].state = "finished", ![k].raised = TRUE,
                                 ![k].fetched = TRUE]
    /\ UNCHANGED <<pb_pc, businesses, pb_i, enriched, businesses_unique, analyses, rows, clock>>

\* One turn of the loop of lines 275-281 over as_completed(future_map).
PB_Collect(k) ==
    /\ pb_pc = "pool"
    /\ Len(futures) = Len(businesses_unique)
    /\ k \in 1..Len(futures)
    /\ futures[k].state = "finished"
    /\ ~futures[k].collected
    /\ analyses' =
          (futures[k].b.place_id :>
              (IF futures[k].raised
               THEN [DefaultAnalysis EXCEPT !.error = "task raised"]
               ELSE futures[k].result)) @@ analyses
    /\ futures' = [futures EXCEPT ![k].collected = TRUE,
                                 ![k].seq = Cardinality(Collected) + 1]
    /\ UNCHANGED <<pb_pc, businesses, pb_i, enriched, businesses_unique, rows, clock>>

PoolDone_nowait == TRUE

\* The as_completed loop has seen every future and the with block has shut
\* the pool down.
PoolDone == \A k \in 1..Len(futures) : futures[k].collected

\* lines 283-310, once the pool has shut down
PB_BuildRows ==
    /\ pb_pc = "pool"
    /\ Len(futures) = Len(businesses_unique)
    /\ PoolDone
    /\ LET out == BuildRows(businesses_unique, analyses, existing_ids, <<>>)
       IN /\ rows' = out.rows
          /\ existing_ids' = out.ids
    /\ pb_pc' = "done"
    /\ UNCHANGED <<businesses, pb_i, enriched, businesses_unique, futures, analyses, clock>>

Candidates == {PlaceEntry(R1), PlaceEntry(R2), PlaceEntry(R3), PlaceEntry(R4), PlaceEntry(R5), PlaceEntry(R0)}

\* One candidate for each form of website URL.
SiteCandidates == {PlaceEntry(R1), PlaceEntry(R3), PlaceEntry(R6), PlaceEntry(R7)}

SeqsUpTo(set, n) == UNION {[1..m -> set] : m \in 0..n}

(***************************************************************************)
(* The store: load_existing_place_ids and save_results                     *)
(*                                                                         *)
(* A row read back from the file has the values it was written with; None  *)
(* and the NaN it is read back as are the same value here, as they are for *)
(* drop_duplicates.                                                        *)
(***************************************************************************)
MaxRuns == 3

\* The keys of a row (lines 294-307), which are the columns of the file.
CsvColumns ==
    {"business_name", "address", "phone_google", "phone_website", "email", "website",
     "rating", "user_ratings_total", "https", "has_viewport", "html_length", "lead_score"}

NoStore == [exists |-> FALSE, rows |-> <<>>]
EmptyFile == [exists |-> TRUE, rows |-> <<>>]

\* lead_filter.load_existing_place_ids: the place_id of the rows that have
\* a place_id column
load_existing_place_ids(st) ==
    IF ~st.exists THEN {}
    ELSE {st.rows[i].src_place_id :
             i \in {j \in 1..Len(st.rows) : "place_id" \in CsvColumns}}

RowKey(r) == <<r.website, r.business_name>>

RECURSIVE DropDuplicates_last(_)
DropDuplicates_last(rs) ==
    IF rs = <<>> THEN <<>>
    ELSE IF \E i \in 2..Len(rs) : RowKey(rs[i]) = RowKey(Head(rs))
    THEN DropDuplicates_last(Tail(rs))
    ELSE <<Head(rs)>> \o DropDuplicates_last(Tail(rs))

RECURSIVE DropFrom(_, _)
DropFrom(rs, keys) ==
    IF rs = <<>> THEN <<>>
    ELSE IF RowKey(Head(rs)) \in keys THEN DropFrom(Tail(rs), keys)
    ELSE <<Head(rs)>> \o DropFrom(Tail(rs), keys \cup {RowKey(Head(rs))})

\* combined.drop_duplicates(subset=["website", "business_name"], keep="first")
DropDuplicates(rs) == DropFrom(rs, {})

\* sort_values(by="lead_score", ascending=False): the sort is not stable, so
\* rows of equal lead_score come out in any order.
RECURSIVE SortedOrders(_, _)
SortedOrders(rs, left) ==
    IF left = {} THEN {<<>>}
    ELSE LET top == {i \in left : \A j \in left : rs[j].lead_score <= rs[i].lead_score}
         IN UNION {{<<rs[i]>> \o rest : rest \in SortedOrders(rs, left \ {i})} : i \in top}

SortValues_ascending(rs) ==
    {[i \in 1..Len(o) |-> o[Len(o) + 1 - i]] : o \in SortedOrders(rs, 1..Len(rs))}

SortValues(rs) == SortedOrders(rs, 1..Len(rs))

\* The file is written with the new rows alone.
save_results_overwrite(new, st) ==
    IF new = <<>> THEN {st}
    ELSE {[exists |-> TRUE, rows |-> o] : o \in SortValues(new)}

\* save_results: the contents the file may have afterwards.  With no rows
\* and no earlier rows, sort_values raises KeyError and nothing is written.
SaveRaises(new, st) == new = <<>> /\ (~st.exists \/ st.rows = <<>>)
save_results(new, st) ==
    IF st.exists /\ st.rows # <<>>
    THEN {[exists |-> TRUE, rows |-> o] : o \in SortValues(DropDuplicates(st.rows \o new))}
    ELSE IF new = <<>> THEN {st}
    ELSE {[exists |-> TRUE, rows |-> o] : o \in SortValues(new)}

(***************************************************************************)
(* main, run after run                                                     *)
(***************************************************************************)
NotSaved == [valid |-> FALSE, old |-> NoStore, new |-> <<>>]

MainIdle ==
    /\ m_pc = "idle"
    /\ run = 1
    /\ api_key = VALID_KEY
    /\ store = NoStore
    /\ saved = NotSaved
    /\ produced = {}

\* The program starts: line 35 loads the identifier set, main checks the key
\* and calls get_places.
M_Start ==
    /\ m_pc = "start"
    /\ existing_ids' = load_existing_place_ids(store)
    /\ ids0' = load_existing_place_ids(store)
    /\ IF api_key = PLACEHOLDER_KEY
       THEN /\ m_pc' = "exit"
            /\ UNCHANGED <<gp_pc, gp_kw, gp_params>>
       ELSE /\ m_pc' = "search"
            /\ gp_pc' = "request"
            /\ gp_kw' = 1
            /\ gp_params' = FirstParams(KEYWORDS[1])
    /\ UNCHANGED <<gp_page, places, clock, gp_log, gp_seen, gp_menu>>
    /\ UNCHANGED <<run, api_key, store, saved, produced>>
    /\ UNCHANGED <<scoreVars, threadVars, pbVars>>

\* get_places has returned: lines 344-347
M_Places ==
    /\ m_pc = "search"
    /\ gp_pc = "done"
    /\ IF places = <<>>
       THEN /\ m_pc' = "exit"
            /\ UNCHANGED pbVars
       ELSE /\ m_pc' = "process"
            /\ PBStart(places)
    /\ gp_pc' = "idle"
    /\ gp_log' = <<>>
    /\ gp_seen' = <<>>
    /\ clock' = 0
    /\ UNCHANGED <<gp_kw, gp_params, gp_page, places, gp_menu>>
    /\ UNCHANGED <<run, api_key, store, saved, produced>>
    /\ UNCHANGED <<scoreVars, filterVars>>

\* process_businesses has returned: line 348
M_Save ==
    /\ m_pc = "process"
    /\ pb_pc = "done"
    /\ store' \in save_results(rows, store)
    /\ saved' = [valid |-> TRUE, old |-> store, new |-> rows]
    /\ produced' = produced \cup {<<run, rows[i].src_place_id>> : i \in 1..Len(rows)}
    /\ m_pc' = IF SaveRaises(rows, store) THEN "crashed" ELSE "exit"
    /\ UNCHANGED <<run, api_key>>
    /\ UNCHANGED <<scoreVars, filterVars, placesVars, pbVars>>

\* The program is run again.
M_NextRun ==
    /\ m_pc \in {"exit", "crashed"}
    /\ run < MaxRuns
    /\ run' = run + 1
    /\ m_pc' = "start"
    /\ saved' = NotSaved
    /\ pb_pc' = "idle"
    /\ businesses' = <<>>
    /\ pb_i' = 1
    /\ enriched' = <<>>
    /\ businesses_unique' = <<>>
    /\ futures' = <<>>
    /\ analyses' = NoAnalyses
    /\ rows' = <<>>
    /\ places' = <<>>
    /\ clock' = 0
    /\ UNCHANGED <<gp_pc, gp_kw, gp_params, gp_page, gp_log, gp_seen, gp_menu>>
    /\ UNCHANGED <<api_key, store, produced>>
    /\ UNCHANGED <<scoreVars, filterVars>>

(***************************************************************************)
(* Specifications                                                          *)
(***************************************************************************)
gpRest == <<gp_pc, gp_kw, gp_params, gp_page, places, gp_log, gp_seen, gp_menu>>

NextScore ==
    \/ ScoreLeadCall /\ UNCHANGED <<filterVars, placesVars, pbVars, mainVars>>
    \/ ScoreLeadAgain /\ UNCHANGED <<filterVars, placesVars, pbVars, mainVars>>

NextFilter ==
    \/ \E t \in Threads : Acquire(t) /\ UNCHANGED <<scoreVars, placesVars, pbVars, mainVars>>
    \/ \E t \in Threads : Check(t) /\ UNCHANGED <<scoreVars, placesVars, pbVars, mainVars>>
    \/ \E t \in Threads : Add(t) /\ UNCHANGED <<scoreVars, placesVars, pbVars, mainVars>>
    \/ \E t \in Threads : Release(t) /\ UNCHANGED <<scoreVars, placesVars, pbVars, mainVars>>

NextPlaces ==
    \/ GP_Request /\ UNCHANGED <<scoreVars, filterVars, pbVars, mainVars>>

NextPB ==
    \/ PB_FetchDetails /\ UNCHANGED <<scoreVars, filterVars, gpRest, mainVars>>
    \/ PB_Dedup /\ UNCHANGED <<scoreVars, filterVars, gpRest, mainVars>>
    \/ PB_Submit /\ UNCHANGED <<scoreVars, filterVars, gpRest, mainVars>>
    \/ \E k \in 1..Len(futures) : W_Start(k) /\ UNCHANGED <<scoreVars, filterVars, gpRest, mainVars>>
    \/ \E k \in 1..Len(futures) : W_Return(k) /\ UNCHANGED <<scoreVars, filterVars, gpRest, mainVars>>
    \/ \E k \in 1..Len(futures) : W_Raise(k) /\ UNCHANGED <<scoreVars, filterVars, gpRest, mainVars>>
    \/ \E k \in 1..Len(futures) : PB_Collect(k) /\ UNCHANGED <<scoreVars, filterVars, gpRest, mainVars>>
    \/ PB_BuildRows /\ UNCHANGED <<scoreVars, threadVars, ids0, gpRest, mainVars>>

InitScore == ScoreInit /\ FilterIdle /\ PlacesIdle /\ PBIdle /\ MainIdle

InitFilter == FilterInit /\ ScoreIdle /\ PlacesIdle /\ PBIdle /\ MainIdle

InitPlaces == PlacesInit /\ gp_menu = AllResultLists /\ ScoreIdle /\ FilterIdle /\ PBIdle /\ MainIdle

\* process_businesses called with any list of candidates and any set.
InitPB ==
    /\ ScoreIdle /\ PlacesIdle /\ MainIdle
    /\ existing_ids \in SUBSET {"p1", "p2"}
    /\ ids0 = existing_ids
    /\ lock = 0
    /\ t_pc = [t \in Threads |-> "idle"]
    /\ t_pid = [t \in Threads |-> ""]
    /\ t_ret = [t \in Threads |-> FALSE]
    /\ pb_pc = "details"
    /\ businesses \in SeqsUpTo(Candidates, MaxBiz) \cup [1..1 -> SiteCandidates]
    /\ pb_i = 1
    /\ enriched = <<>>
    /\ businesses_unique = <<>>
    /\ futures = <<>>
    /\ analyses = NoAnalyses
    /\ rows = <<>>

\* The pool of process_businesses on its own: MaxTasks unique businesses,
\* more than the pool has workers, the last with a website and the others
\* without; their details are fetched and the dedup has kept them all.
PoolCandidate(k) ==
    PlaceEntry(Raw("q" \o ToString(k), "N" \o ToString(k), Num(40), Num(10), "", ""))
PoolBusiness(k) ==
    Enrich(PoolCandidate(k),
           IF k = MaxTasks THEN Details("example.com", "", "") ELSE NoDetails)

InitPool ==
    /\ ScoreIdle /\ FilterIdle /\ MainIdle
    /\ gp_pc = "idle"
    /\ gp_kw = 1
    /\ gp_params = FirstParams("")
    /\ gp_page = 0
    /\ places = <<>>
    /\ clock = PLACES_SLEEP * MaxTasks
    /\ gp_log = <<>>
    /\ gp_seen = <<>>
    /\ gp_menu = {}
    /\ pb_pc = "pool"
    /\ businesses = [k \in 1..MaxTasks |-> PoolCandidate(k)]
    /\ pb_i = MaxTasks + 1
    /\ enriched = [k \in 1..MaxTasks |-> PoolBusiness(k)]
    /\ businesses_unique = [k \in 1..MaxTasks |-> PoolBusiness(k)]
    /\ futures = <<>>
    /\ analyses = NoAnalyses
    /\ rows = <<>>

\* What the pool leaves alone.
poolRest == <<scoreVars, filterVars, gpRest, mainVars>>

NextPool ==
    \/ PB_Submit /\ UNCHANGED poolRest
    \/ \E k \in 1..Len(futures) : W_Start(k) /\ UNCHANGED poolRest
    \/ \E k \in 1..Len(futures) : W_Return(k) /\ UNCHANGED poolRest
    \/ \E k \in 1..Len(futures) : W_Raise(k) /\ UNCHANGED poolRest

\* The pool does not stop while there is something to do: the calling
\* thread goes on submitting, an idle worker takes the oldest queued task,
\* and a task that runs ends, the fetch having a timeout and the rest of
\* analyze_website being a computation on the page.
FairPool == WF_vars(NextPool)

MainResultLists == {<<R1, R2>>}

\* The first run of the program: the file is not there, or it is empty.
InitMain ==
    /\ ScoreIdle /\ FilterIdle /\ PBIdle
    /\ gp_pc = "idle"
    /\ gp_kw = 1
    /\ gp_params = FirstParams("")
    /\ gp_page = 0
    /\ places = <<>>
    /\ clock = 0
    /\ gp_log = <<>>
    /\ gp_seen = <<>>
    /\ gp_menu = MainResultLists
    /\ m_pc = "start"
    /\ run = 1
    /\ api_key \in {"", PLACEHOLDER_KEY, VALID_KEY}
    /\ store \in {NoStore, EmptyFile}
    /\ saved = NotSaved
    /\ produced = {}

NextMain ==
    \/ M_Start
    \/ GP_Request /\ UNCHANGED <<scoreVars, filterVars, pbVars, mainVars>>
    \/ M_Places
    \/ NextPB
    \/ M_Save
    \/ M_NextRun

SpecScore == InitScore /\ [][NextScore]_vars
SpecFilter == InitFilter /\ [][NextFilter]_vars
SpecPlaces == InitPlaces /\ [][NextPlaces]_vars
SpecPB == InitPB /\ [][NextPB]_vars
SpecMain == InitMain /\ [][NextMain]_vars
SpecPool == InitPool /\ [][NextPool]_vars /\ FairPool

\* The rows have pairwise distinct (website, business_name) keys.
KeysDistinct(rs) == \A i, j \in 1..Len(rs) : RowKey(rs[i]) = RowKey(rs[j]) => i = j

KeysOf(rs) == {RowKey(rs[i]) : i \in 1..Len(rs)}

\* What a call of save_results on a store with distinct keys leaves: every
\* row of the store as it was, distinct keys, and of the new rows those
\* alone whose key the store did not have.
SaveKeepsRows ==
    /\ KeysDistinct(store.rows)
    /\ (saved.valid /\ KeysDistinct(saved.old.rows)) =>
          /\ Range(saved.old.rows) \subseteq Range(store.rows)
          /\ \A r \in Range(store.rows) \ Range(saved.old.rows) :
                /\ r \in Range(saved.new)
                /\ RowKey(r) \notin KeysOf(saved.old.rows)

\* C21: across any sequence of save_results calls on a store whose rows have
\* pairwise distinct (website, business_name) keys, no persisted row is lost
\* or changed: every row of the prior store is in the new store with the
\* same fields, the keys of the new store are pairwise distinct, and a new
\* row is added only if the prior store did not have its key.
C21_StoreKeepsRows ==
    /\ [](SaveKeepsRows)
    /\ [][Range(store.rows) \subseteq Range(store'.rows)]_vars

\* The third save: the store had grown to three rows in the second, and a
\* new row has the key of a stored row and another lead_score; the store
\* keeps its three rows.
C21_Witness ==
    /\ saved.valid
    /\ run = 3
    /\ Len(saved.old.rows) = 3
    /\ \E i \in 1..Len(saved.new) : \E j \in 1..Len(saved.old.rows) :
          /\ RowKey(saved.new[i]) = RowKey(saved.old.rows[j])
          /\ saved.new[i].lead_score # saved.old.rows[j].lead_score
    /\ Range(store.rows) = Range(saved.old.rows)
    /\ Len(store.rows) = 3

(***************************************************************************)
(* Claims about process_businesses                                         *)
(***************************************************************************)
RowIds == {rows[i].src_place_id : i \in 1..Len(rows)}
UniqueIds == {businesses_unique[k].place_id : k \in 1..Len(businesses_unique)}

\* C3: one call of process_businesses emits at most one row per place_id,
\* only for ids that were not in the identifier set, none for a business
\* without place_id and none for a business whose claim fails: the row of an
\* id is built from the first unique business with that id.
C3_OneRowPerPlace ==
    pb_pc = "done" =>
        /\ \A i, j \in 1..Len(rows) : rows[i].src_place_id = rows[j].src_place_id => i = j
        /\ RowIds = UniqueIds \ (ids0 \cup {""})
        /\ \A i \in 1..Len(rows) :
             \E k \in 1..Len(businesses_unique) :
                /\ businesses_unique[k].place_id = rows[i].src_place_id
                /\ \A h \in 1..(k - 1) :
                      businesses_unique[h].place_id # rows[i].src_place_id
                /\ rows[i].website = businesses_unique[k].website
                /\ rows[i].business_name = businesses_unique[k].business_name

\* The dedup key of an entry: its website if it has one, else its name.
KeyOf(e) == IF e.website # "" THEN e.website ELSE e.business_name

\* The entries of enriched that are the first with their key.
FirstOfKey ==
    {i \in 1..Len(enriched) : \A h \in 1..(i - 1) : KeyOf(enriched[h]) # KeyOf(enriched[i])}

\* C11: the in-batch dedup keeps, for each dedup key, exactly the first
\* enriched entry in input order; no two survivors share a key and they keep
\* their input order; it runs after all detail fetches and before any
\* analysis is submitted, and only survivors are analysed, once each.
C11_DedupKeepsFirst ==
    /\ pb_pc = "details" => (businesses_unique = <<>> /\ futures = <<>>)
    /\ pb_pc \in {"pool", "done"} =>
          /\ Len(enriched) = Len(businesses)
          /\ Len(businesses_unique) = Cardinality(FirstOfKey)
          /\ \A i \in FirstOfKey :
                businesses_unique[Cardinality({h \in FirstOfKey : h <= i})] = enriched[i]
          /\ \A j, k \in 1..Len(businesses_unique) :
                KeyOf(businesses_unique[j]) = KeyOf(businesses_unique[k]) => j = k
    /\ Len(futures) <= Len(businesses_unique)
    /\ \A k \in 1..Len(futures) : futures[k].b = businesses_unique[k]

\* Two different entries with the same key: the first one alone is analysed.
C11_Witness ==
    /\ pb_pc = "done"
    /\ Len(enriched) = 2
    /\ enriched[1] # enriched[2]
    /\ KeyOf(enriched[1]) = KeyOf(enriched[2])
    /\ businesses_unique = <<enriched[1]>>
    /\ Len(futures) = 1
    /\ futures[1].collected

\* The phases as the state shows them: the details of the first pb_i - 1
\* candidates are fetched, in candidate order, with one delay each; tasks
\* exist only once all details are there; the identifier set and the rows
\* change only once every task is finished and collected.
PhaseOrder ==
    /\ pb_pc # "idle" => Len(enriched) = pb_i - 1
    /\ \A i \in 1..Len(enriched) :
          /\ enriched[i].place_id = businesses[i].place_id
          /\ enriched[i].business_name = businesses[i].business_name
    /\ clock = PLACES_SLEEP * Len(enriched)
    /\ futures # <<>> => Len(enriched) = Len(businesses)
    /\ (rows # <<>> \/ existing_ids # ids0 \/ pb_pc = "done") =>
          /\ Len(futures) = Len(businesses_unique)
          /\ \A k \in 1..Len(futures) :
                futures[k].state = "finished" /\ futures[k].collected

\* The phases as the steps show them: a details fetch adds one entry and
\* happens while no task exists; a step of the pool leaves the identifier
\* set and the rows alone; the set and the rows change in the last step only.
PhaseStep ==
    /\ enriched' # enriched =>
          /\ futures = <<>> /\ futures' = <<>>
          /\ Len(enriched') = Len(enriched) + 1
    /\ futures' # futures => (existing_ids' = existing_ids /\ rows' = rows)
    /\ (existing_ids' # existing_ids \/ rows' # rows) =>
          /\ pb_pc' = "done"
          /\ \A k \in 1..Len(futures) : futures[k].state = "finished"

\* C15: process_businesses runs three phases in strict order: the detail
\* fetches one at a time in candidate order with the fixed delay after each,
\* then the analysis tasks, none submitted before the last detail fetch has
\* returned, then the claims and the rows, none before every task has
\* completed; no step of the pool touches the identifier set.
C15_ThreePhases == [](PhaseOrder) /\ [][PhaseStep]_vars

\* Two candidates, two tasks, both completed, then the claims and two rows.
C15_Witness ==
    /\ pb_pc = "done"
    /\ Len(enriched) = 2
    /\ clock = 2 * PLACES_SLEEP
    /\ Len(futures) = 2
    /\ Len(rows) = 2
    /\ existing_ids # ids0

\* The identifier set during and after a call of process_businesses.
GrownByRows ==
    /\ ids0 \subseteq existing_ids
    /\ pb_pc # "done" => existing_ids = ids0
    /\ pb_pc = "done" =>
          /\ existing_ids = ids0 \cup RowIds
          /\ \A i \in 1..Len(enriched) :
                (/\ i \notin FirstOfKey
                 /\ enriched[i].place_id \notin ids0
                 /\ enriched[i].place_id \notin UniqueIds)
                => enriched[i].place_id \notin existing_ids

\* C19: the identifier set only grows; at the end of a call of
\* process_businesses it is the set at the start united with the place_ids
\* of the rows the call emitted, so that the place_id of a business dropped
\* by the in-batch dedup is not added and none is added without a row.
C19_SetOnlyGrows == [](GrownByRows) /\ [][existing_ids \subseteq existing_ids']_vars

\* The set was not empty, a row was emitted, and a business was dropped by
\* the dedup: its place_id is not in the set.
C19_Witness ==
    /\ pb_pc = "done"
    /\ ids0 # {}
    /\ RowIds # {}
    /\ RowIds \cap ids0 = {}
    /\ \E i \in 1..Len(enriched) :
          i \notin FirstOfKey /\ enriched[i].place_id \notin existing_ids

\* The candidates have distinct place_ids, none empty.
DistinctIds ==
    /\ \A i \in 1..Len(businesses) : businesses[i].place_id # ""
    /\ \A i, j \in 1..Len(businesses) :
          businesses[i].place_id = businesses[j].place_id => i = j

\* What the task of a unique business yields, given the response its fetch
\* got: a function of the business and the response alone.
OutcomeOf(k) ==
    IF futures[k].raised THEN DefaultAnalysis
    ELSE IF futures[k].b.website = "" THEN DefaultAnalysis
    ELSE analyze_website(futures[k].b.website, futures[k].fetch)

\* The unique businesses whose place_id was not in the set, in their order.
Claimed == SelectSeq(businesses_unique, LAMBDA b : b.place_id \notin ids0)

\* C20: for candidates with distinct non-empty place_ids the rows are a
\* function of the unique businesses and of the responses: one row for each
\* unique business that is new, in the order of the unique businesses, built
\* from the analysis of that business, whatever the order in which the tasks
\* ran and completed.
C20_RowsIndependentOfSchedule ==
    (pb_pc = "done" /\ DistinctIds) =>
        /\ Len(rows) = Len(Claimed)
        /\ \A i \in 1..Len(rows) :
              LET k == CHOOSE k \in 1..Len(futures) : futures[k].b = Claimed[i]
              IN rows[i] = MakeRow(Claimed[i], OutcomeOf(k))

\* Two sites with different pages; the task of the second completed first
\* and was the first that as_completed yielded.
C20_Witness ==
    /\ pb_pc = "done"
    /\ DistinctIds
    /\ Len(rows) = 2
    /\ futures[2].seq = 1
    /\ futures[1].seq = 2
    /\ rows[1].website = "example.com"
    /\ rows[2].website = "https://acme.com"
    /\ rows[1].html_length # rows[2].html_length

\* The enriched entries of a call in which no details request fails, and
\* the candidates that get a row in such a call: the first of each key.
RefEnriched ==
    [i \in 1..Len(businesses) |->
        Enrich(businesses[i], DetailsOf(businesses[i].place_id))]
RefFirstOfKey ==
    {i \in 1..Len(businesses) :
        \A h \in 1..(i - 1) : KeyOf(RefEnriched[h]) # KeyOf(RefEnriched[i])}

\* The candidates whose details request failed, as far as it shows.
DetailFailed == {i \in 1..Len(enriched) : enriched[i] # RefEnriched[i]}

\* The row built from the candidate i, if there is one.
RowsOf(i) == {r \in Range(rows) : r.src_place_id = businesses[i].place_id}

\* C17: per-item failures are isolated.  In a call with new, distinct
\* place_ids in which the details request of one candidate fails, that
\* candidate still gets its row (website and phone unset, address from the
\* candidate), and every other candidate gets a row exactly when it gets one
\* in the call without the failure, built from its own details; a task that
\* raised leaves a row with the default analysis.
C17_FailuresIsolated ==
    (/\ pb_pc = "done"
     /\ DistinctIds
     /\ \A i \in 1..Len(businesses) : businesses[i].place_id \notin ids0
     /\ Cardinality(DetailFailed) = 1)
    => /\ \A x \in DetailFailed :
             x \in RefFirstOfKey =>
                 \E r \in RowsOf(x) :
                     /\ r.website = ""
                     /\ r.phone_google = ""
                     /\ r.address = businesses[x].address
       /\ \A i \in (1..Len(businesses)) \ DetailFailed :
             /\ (i \in RefFirstOfKey) <=> (RowsOf(i) # {})
             /\ \A r \in RowsOf(i) :
                   /\ r.website = RefEnriched[i].website
                   /\ r.address = RefEnriched[i].address
       /\ \A k \in 1..Len(futures) :
             futures[k].raised =>
                 \E r \in Range(rows) :
                     /\ r.src_place_id = futures[k].b.place_id
                     /\ ~r.https /\ ~r.has_viewport /\ r.html_length = Num(0)
                     /\ r.email = NoneV

\* The same place twice in the input (its details failed once, so both
\* survive the dedup), one place already in the set: one row.
C3_Witness ==
    /\ pb_pc = "done"
    /\ Len(businesses_unique) = 2
    /\ businesses_unique[1].place_id = "p1"
    /\ businesses_unique[2].place_id = "p1"
    /\ ids0 = {"p2"}
    /\ Len(rows) = 1

EmailC9 == <<"c", "o", "n", "t", "a", "c", "t", "@", "e", "x", "a", "m", "p", "l", "e", ".", "c", "o", "m">>

\* The words of a text: what is between its spaces.
RECURSIVE Words(_, _)
Words(text, word) ==
    IF text = <<>> THEN (IF word = <<>> THEN {} ELSE {word})
    ELSE IF Head(text) = " "
    THEN (IF word = <<>> THEN {} ELSE {word}) \cup Words(Tail(text), <<>>)
    ELSE Words(Tail(text), Append(word, Head(text)))

\* The rows of the candidate of the end-to-end example, built from a page of
\* length 800 without viewport meta, with the address in it and without any
\* of the call-to-action keywords among the words of its visible text.
ExampleTasks ==
    {k \in 1..Len(businesses_unique) :
        /\ businesses_unique[k].place_id = "p1"
        /\ businesses_unique[k].website = "example.com"
        /\ businesses_unique[k].rating = Num(30)
        /\ businesses_unique[k].user_ratings_total = Num(5)
        /\ ~futures[k].raised
        /\ futures[k].fetch.ok
        /\ futures[k].fetch.page.length = 800
        /\ futures[k].fetch.page.metas = <<>>
        /\ EmailC9 \in FindEmails(Html(futures[k].fetch.page), 1)
        /\ Words(Lower(GetText(futures[k].fetch.page)), <<>>) \cap CtaKeywords = {}}

ExampleRows(k) ==
    {i \in 1..Len(rows) :
        /\ rows[i].src_place_id = "p1"
        /\ rows[i].website = "example.com"
        /\ rows[i].html_length = Num(800)}

\* C9 as stated: the example candidate gets lead_score 15.
C9_ExampleScores15 ==
    pb_pc = "done" =>
        \A k \in ExampleTasks : \A i \in ExampleRows(k) : rows[i].lead_score = 15

\* C9 as amended: the example candidate gets lead_score 15 when the address
\* is not in the visible text of the page; when it is, the substring search
\* finds "contact" in it, has_cta is true and the lead_score is 13.
C9_ExampleScores15Or13 ==
    pb_pc = "done" =>
        \A k \in ExampleTasks : \A i \in ExampleRows(k) :
            rows[i].lead_score =
                (IF Contains(Lower(GetText(futures[k].fetch.page)), EmailC9)
                 THEN 13 ELSE 15)

C9_Witness ==
    /\ pb_pc = "done"
    /\ \E k \in ExampleTasks : \E i \in ExampleRows(k) :
          /\ ~Contains(Lower(GetText(futures[k].fetch.page)), EmailC9)
          /\ rows[i].lead_score = 15
          /\ rows[i].email = EmailC9
          /\ ~rows[i].https

(***************************************************************************)
(* Claims about the store and the runs                                     *)
(***************************************************************************)
RunsProducing(pid) == {r \in 1..run : <<r, pid>> \in produced}

\* C1 as stated: over any sequence of runs a row for a given place_id is
\* built in at most one run, and the store never holds two rows that come
\* from the same place_id.
C1_OneRowPerPlaceEver ==
    /\ \A pid \in PlaceIds : Cardinality(RunsProducing(pid)) <= 1
    /\ \A i, j \in 1..Len(store.rows) :
          store.rows[i].src_place_id = store.rows[j].src_place_id => i = j

\* C12: when GOOGLE_API_KEY is not set, main stops before any network
\* request: no search request, no details request, no page fetch, and the
\* store is not written.
C12_NoRequestWithoutKey ==
    api_key = "" =>
        /\ gp_log = <<>>
        /\ enriched = <<>>
        /\ futures = <<>>
        /\ ~saved.valid

\* C14: at the start of a run (the set has just been loaded and the store is
\* as earlier runs left it) the identifier set holds the place_id of every
\* row of the store, and it is empty when the store does not exist.
C14_LoadedSetCoversStore ==
    m_pc = "search" =>
        /\ \A i \in 1..Len(store.rows) : store.rows[i].src_place_id \in ids0
        /\ ~store.exists => ids0 = {}

IsSortedDesc(rs) ==
    \A i \in 1..(Len(rs) - 1) : rs[i].lead_score >= rs[i + 1].lead_score

\* C10: given a store with rows, save_results writes old + new without the
\* rows whose (website, business_name) occurred earlier in old + new, so an
\* old row wins over a new row with its key, ordered by lead_score
\* descending; given no store or one without rows, it writes the new rows.
C10_MergeKeepsFirst ==
    saved.valid =>
        IF saved.old.exists /\ saved.old.rows # <<>>
        THEN LET cat == saved.old.rows \o saved.new
                 firsts == {i \in 1..Len(cat) :
                               \A h \in 1..(i - 1) : RowKey(cat[h]) # RowKey(cat[i])}
             IN /\ store.exists
                /\ Len(store.rows) = Cardinality(firsts)
                /\ Range(store.rows) = {cat[i] : i \in firsts}
                /\ IsSortedDesc(store.rows)
                /\ \A j \in 1..Len(store.rows) :
                      (\E i \in 1..Len(saved.old.rows) :
                          RowKey(saved.old.rows[i]) = RowKey(store.rows[j]))
                      => store.rows[j] \in Range(saved.old.rows)
        ELSE /\ Len(store.rows) = Len(saved.new)
             /\ Range(store.rows) = Range(saved.new)

\* A new row with the key of an old row and another score was dropped, and
\* the rows written have different scores.
C10_Witness ==
    /\ saved.valid
    /\ Len(saved.old.rows) >= 2
    /\ \E i \in 1..Len(saved.new) : \E j \in 1..Len(saved.old.rows) :
          /\ RowKey(saved.new[i]) = RowKey(saved.old.rows[j])
          /\ saved.new[i].lead_score # saved.old.rows[j].lead_score
          /\ saved.old.rows[j] \in Range(store.rows)
          /\ saved.new[i] \notin Range(store.rows)
    /\ store.rows[1].lead_score > store.rows[Len(store.rows)].lead_score

(***************************************************************************)
(* Claims about get_places                                                 *)
(***************************************************************************)
SameChain(i) == i > 1 /\ gp_log[i - 1].kw = gp_log[i].kw
HasToken(i) == gp_log[i].ok /\ gp_log[i].next_page_token # NoToken
ChainOver(k) == gp_pc = "done" \/ gp_kw > k
Requeries(k) == {i \in 1..Len(gp_log) : gp_log[i].kw = k /\ SameChain(i)}
TokenResponses(k) == {i \in 1..Len(gp_log) : gp_log[i].kw = k /\ HasToken(i)}

\* C4: in a keyword's chain, a response with a continuation token is followed
\* by exactly one re-query, made after the fixed delay and carrying that token;
\* a chain's first request carries the keyword and no token; nothing follows a
\* response without a token, so n tokens give exactly n re-queries.
C4_PaginationChain ==
    /\ \A i \in 1..Len(gp_log) :
         /\ IF SameChain(i)
            THEN /\ HasToken(i - 1)
                 /\ gp_log[i].pagetoken = gp_log[i - 1].next_page_token
                 /\ gp_log[i].keyword = ""
                 /\ gp_log[i].at >= gp_log[i - 1].at + 2
            ELSE /\ gp_log[i].pagetoken = NoToken
                 /\ gp_log[i].keyword = KEYWORDS[gp_log[i].kw]
         /\ HasToken(i) =>
              IF i < Len(gp_log)
              THEN gp_log[i + 1].kw = gp_log[i].kw
              ELSE /\ gp_pc = "request"
                   /\ gp_kw = gp_log[i].kw
                   /\ gp_params.pagetoken = gp_log[i].next_page_token
    /\ \A k \in 1..Len(KEYWORDS) :
         ChainOver(k) => Cardinality(Requeries(k)) = Cardinality(TokenResponses(k))

\* The chain of the first keyword got the tokens [T1, T2, none].
C4_Witness ==
    /\ Len(gp_log) >= 3
    /\ gp_kw = 2
    /\ \A i \in 1..3 : gp_log[i].kw = 1
    /\ HasToken(1) /\ HasToken(2)
    /\ gp_log[3].ok /\ gp_log[3].next_page_token = NoToken
    /\ gp_log[2].pagetoken = Token(1) /\ gp_log[3].pagetoken = Token(2)
    /\ Cardinality(Requeries(1)) = 2

SeenIds == {gp_seen[j].place_id : j \in 1..Len(gp_seen)} \ {""}

\* C5: a chain ends at a response without a token or at its first failed
\* request; a failure ends only its own chain: the next keyword is queried
\* next, every keyword has been queried when get_places returns, and every
\* place collected from a successful response is in the result.
C5_FailureEndsOneChain ==
    /\ \A i \in 1..Len(gp_log) :
         /\ (i < Len(gp_log) /\ gp_log[i + 1].kw # gp_log[i].kw) =>
               /\ ~HasToken(i)
               /\ gp_log[i + 1].kw = gp_log[i].kw + 1
         /\ (~gp_log[i].ok /\ i < Len(gp_log)) => gp_log[i + 1].kw = gp_log[i].kw + 1
         /\ (~gp_log[i].ok /\ i = Len(gp_log)) =>
               IF gp_log[i].kw < Len(KEYWORDS)
               THEN gp_pc = "request" /\ gp_kw = gp_log[i].kw + 1
               ELSE gp_pc = "done"
    /\ gp_pc = "done" =>
         /\ \A k \in 1..Len(KEYWORDS) :
              \E i \in 1..Len(gp_log) :
                 gp_log[i].kw = k /\ gp_log[i].keyword = KEYWORDS[k]
         /\ ~HasToken(Len(gp_log))
    /\ \A pid \in SeenIds : HasPlace(places, pid)

\* The first keyword's chain failed after a page with results, and the second
\* keyword was still queried.
C5_Witness ==
    /\ gp_pc = "done"
    /\ Len(gp_log) >= 3
    /\ HasToken(1)
    /\ ~gp_log[2].ok /\ gp_log[2].kw = 1
    /\ gp_log[3].kw = 2 /\ gp_log[3].ok
    /\ HasPlace(places, "p1")
    /\ HasPlace(places, "p3")

FirstSeen(pid) ==
    CHOOSE j \in 1..Len(gp_seen) :
        /\ gp_seen[j].place_id = pid
        /\ \A h \in 1..(j - 1) : gp_seen[h].place_id # pid

\* C6: the result holds each place_id at most once, never an entry without a
\* place_id, and each entry carries the name, rating, review count and address
\* of the first result with that place_id in query order.
C6_FirstSeenWins ==
    /\ \A i, j \in 1..Len(places) : places[i].place_id = places[j].place_id => i = j
    /\ \A i \in 1..Len(places) :
         /\ places[i].place_id \in SeenIds
         /\ LET r == gp_seen[FirstSeen(places[i].place_id)]
            IN /\ places[i].business_name = r.name
               /\ places[i].rating = r.rating
               /\ places[i].user_ratings_total = r.user_ratings_total
               /\ places[i].address =
                     (IF r.vicinity # "" THEN r.vicinity ELSE r.formatted_address)

\* p1 came first as R1 and later again with other metadata, and a result
\* without place_id was returned too.
C6_Witness ==
    /\ gp_pc = "done"
    /\ \E j \in 1..Len(gp_seen) : gp_seen[j] = R0
    /\ \E j \in 1..Len(gp_seen) : gp_seen[j] = R1b /\ FirstSeen("p1") < j
    /\ gp_seen[FirstSeen("p1")] = R1
    /\ \E i \in 1..Len(places) : places[i].business_name = "A"

Returned(t) == t_pc[t] = "done"
TrueCalls(p) == {t \in Threads : Returned(t) /\ t_pid[t] = p /\ t_ret[t]}

\* C2: of the threads calling is_new_place with the same place_id on the same
\* set, under every interleaving exactly one gets True and the others False
\* (none when the id was in the set before); calls with distinct absent ids
\* each get True; the id is in the set once a call for it has returned.
C2_ExactlyOneClaims ==
    /\ \A p \in PlaceIds : Cardinality(TrueCalls(p)) <= 1
    /\ \A t \in Threads : Returned(t) => t_pid[t] \in existing_ids
    /\ \A t \in Threads : (Returned(t) /\ t_ret[t]) => t_pid[t] \notin ids0
    /\ (\A t \in Threads : Returned(t)) =>
          \A t \in Threads :
             t_pid[t] \notin ids0 => Cardinality(TrueCalls(t_pid[t])) = 1

C2_Witness ==
    /\ \A t \in Threads : Returned(t)
    /\ ids0 = {}
    /\ t_pid[1] = t_pid[2]
    /\ t_pid[3] # t_pid[1]
    /\ t_ret[2] /\ ~t_ret[1] /\ t_ret[3]

\* C7: score_lead returns exactly 10 whenever has_website is false, whatever
\* the other seven arguments are (missing and malformed values included).
C7_NoWebsiteIsTen ==
    (sl_pc = "returned" /\ ~sl_args.has_website) => sl_score = 10

C7_Witness ==
    /\ sl_pc = "returned"
    /\ ~sl_args.has_website
    /\ ~sl_args.https
    /\ sl_args.rating = Junk
    /\ sl_args.html_length = NoneV
    /\ sl_score = 10

AllSevenNegative(a) ==
    /\ ~a.https
    /\ ~a.has_viewport
    /\ ShortPage(a.html_length)
    /\ a.emails = <<>>
    /\ ~a.has_cta
    /\ LowRating(a.rating)
    /\ LowReviews(a.user_ratings_total)

\* C8: with has_website true, turning one signal from its good form into its
\* bad form, the other arguments fixed, never decreases the score; the score
\* is within 0..17 and is 17 exactly when all seven negative signals are present.
C8_Monotonic ==
    (sl_pc = "returned" /\ sl_args.has_website) =>
        /\ sl_prev.valid => sl_score >= sl_prev.score
        /\ sl_score \in 0..17
        /\ (sl_score = 17) <=> AllSevenNegative(sl_args)

C8_Witness ==
    /\ sl_pc = "returned"
    /\ sl_args.has_website
    /\ sl_prev.valid
    /\ sl_prev.score = 16
    /\ sl_score = 17

\* C18: with has_website true, a rating that is None or spells no number, a
\* review count that is None or spells no number, and a page length that is
\* None or not a number are scored as a value just below the threshold is:
\* one point, one point and three points more than a value at the threshold.
C18_MalformedAsBelow ==
    (sl_pc = "returned" /\ sl_args.has_website) =>
        /\ sl_args.rating \in {NoneV, Junk} =>
              /\ sl_score = ScoreOf([sl_args EXCEPT !.rating = Num(RATING_THRESHOLD - 1)])
              /\ sl_score = ScoreOf([sl_args EXCEPT !.rating = Num(RATING_THRESHOLD)]) + 1
        /\ sl_args.user_ratings_total \in {NoneV, Junk} =>
              /\ sl_score = ScoreOf([sl_args EXCEPT !.user_ratings_total = Num(REVIEWS_THRESHOLD - 1)])
              /\ sl_score = ScoreOf([sl_args EXCEPT !.user_ratings_total = Num(REVIEWS_THRESHOLD)]) + 1
        /\ sl_args.html_length \in {NoneV, Junk} =>
              /\ sl_score = ScoreOf([sl_args EXCEPT !.html_length = Num(LEN_THRESHOLD - 1)])
              /\ sl_score = ScoreOf([sl_args EXCEPT !.html_length = Num(LEN_THRESHOLD)]) + 3

\* A site that is good in every other respect: the three malformed values
\* are all it is scored for.
C18_Witness ==
    /\ sl_pc = "returned"
    /\ sl_args.has_website /\ sl_args.https /\ sl_args.has_viewport /\ sl_args.has_cta
    /\ sl_args.emails # <<>>
    /\ sl_args.rating = Junk
    /\ sl_args.user_ratings_total = Junk
    /\ sl_args.html_length = NoneV
    /\ sl_score = 5

(***************************************************************************)
(* Claims about the pool                                                   *)
(***************************************************************************)
\* At most MAX_WORKERS tasks run, and the task of a business without a
\* website ends with the default analysis and without a request.
PoolBounded ==
    /\ Cardinality(Running) <= MAX_WORKERS
    /\ \A k \in Finished :
          futures[k].b.website = "" =>
              /\ futures[k].result = DefaultAnalysis
              /\ ~futures[k].fetched
              /\ ~futures[k].raised

\* A step changes one task at most; a task that runs goes on running or
\* ends, and a task that has ended keeps the one result it ended with.
NoCancel ==
    /\ Len(futures') >= Len(futures)
    /\ \A j, k \in 1..Len(futures) :
          (futures'[j] # futures[j] /\ futures'[k] # futures[k]) => j = k
    /\ \A k \in 1..Len(futures) :
          /\ futures[k].state = "running" => futures'[k].state \in {"running", "finished"}
          /\ futures[k].state = "finished" =>
                /\ futures'[k].state = "finished"
                /\ futures'[k].result = futures[k].result
                /\ futures'[k].raised = futures[k].raised

FailedFetches ==
    {k \in 1..Len(futures) :
        /\ futures[k].state = "finished"
        /\ ~futures[k].raised
        /\ futures[k].fetched
        /\ ~futures[k].fetch.ok}

\* The scheme of the URL is https once it is normalised: the URL starts with
\* https:// in any case, or it is protocol-relative.
SchemeIsHttps(url) ==
    \/ StartsWith(Lower(Spelling[url]), <<"h", "t", "t", "p", "s", ":", "/", "/">>)
    \/ StartsWith(Spelling[url], <<"/", "/">>)

\* C13 as stated: when the page fetch fails, analyze_website returns the
\* error field set and every other field at its default, https included,
\* for every form of URL.
C13_FailureAllDefault ==
    \A k \in FailedFetches :
        futures[k].result = [DefaultAnalysis EXCEPT !.error = "fetch failed"]

\* C13: when the page fetch fails, analyze_website returns the error field
\* set and every other field at its default except https, which tells the
\* scheme of the normalised URL: true for https:// and for //host, false for
\* http:// and for a bare host.
C13_FailureDefaultButHttps ==
    \A k \in FailedFetches :
        futures[k].result = [DefaultAnalysis EXCEPT !.error = "fetch failed",
                                                    !.https = SchemeIsHttps(futures[k].b.website)]

\* The fetch of a protocol-relative URL has failed.
C13_Witness ==
    \E k \in FailedFetches :
        /\ futures[k].b.website = "//host.com"
        /\ futures[k].result.https
        /\ futures[k].result.error # ""
        /\ futures[k].result.html_length = Num(0)

====
